---- MODULE Spec2Model ----
(***************************************************************************)
(* Model of the election backend in src/server.js: the in-memory stores    *)
(* (voters, candidates, votes, encryptedBallots, dpAnalyticsBudget), the   *)
(* request handlers that read and write them, and the response each        *)
(* handler sends.  A handler is an async function without any await, so    *)
(* Node runs it to completion before the next request is dispatched: one   *)
(* handler is one atomic action, and concurrent requests are the           *)
(* interleavings of these actions.                                         *)
(***************************************************************************)
EXTENDS Integers, Sequences, FiniteSets, TLC

VARIABLES voters, candidates, votes, nextVoteId, encryptedBallots,
          dpAnalyticsBudget, homomorphicTallies, rankedBallots, audits,
          now, resp

vars == <<voters, candidates, votes, nextVoteId, encryptedBallots,
          dpAnalyticsBudget, homomorphicTallies, rankedBallots, audits,
          now, resp>>

----------------------------------------------------------------------------
(* Bounds of the model *)

\* voter ids are 1..MaxVoterId; 0 stands for a falsy (missing) id
MaxVoterId == 2
\* candidate ids are 1..MaxCandidateId; 0 stands for a falsy (missing) id
MaxCandidateId == 2
\* successful casts in one behaviour
MaxVotes == 2
\* candidate ids of the ranking requests are 1..MaxRankedCandidateId
MaxRankedCandidateId == 3
\* the clock is read at 0, TickMs, ..., MaxTime * TickMs milliseconds
MaxTime == 1
TickMs == 500

\* uuidv4() draws the ballot ids b_1 .. b_MaxBallots, none of them twice
MaxBallots == 3
\* nullifiers are 1..MaxNullifier; 0 stands for a falsy (missing) nullifier
MaxNullifier == 2
\* election ids are 1..MaxElectionId; 0 stands for a falsy (missing) id
MaxElectionId == 2
\* a request's epsilon is a number k / 10 with k in -1..MaxEpsilonTenths
MaxEpsilonTenths == 6

VoterIdInputs == 0..MaxVoterId
CandidateIdInputs == 0..MaxCandidateId
RankedCandidateIdInputs == 0..MaxRankedCandidateId
Instants == {k * TickMs : k \in 0..MaxTime}

----------------------------------------------------------------------------
(* JavaScript values *)

\* an optional request field: <<>> is undefined, <<x>> is the value x
Undefined == <<>>
Some(x) == <<x>>
Val(o) == o[1]

\* !x for an optional string field: undefined and "" are falsy
FalsyStr(o) == o = Undefined \/ Val(o) = ""

\* A Map iterated in insertion order: a sequence of <<key, value>> entries.
MapHas(m, k) == \E i \in 1..Len(m) : m[i][1] = k
MapGet(m, k) == m[CHOOSE i \in 1..Len(m) : m[i][1] = k][2]
\* Map.prototype.set: an existing key keeps its position, a new key is appended
MapSet(m, k, v) ==
  IF MapHas(m, k)
  THEN [i \in 1..Len(m) |-> IF m[i][1] = k THEN <<k, v>> ELSE m[i]]
  ELSE Append(m, <<k, v>>)
\* Array.from(m.values())
MapValues(m) == [i \in 1..Len(m) |-> m[i][2]]

\* A Map that is only looked up by key (never iterated by a modelled handler):
\* a function whose domain is the set of keys present.
KeyedSet(m, k, v) == [x \in (DOMAIN m) \cup {k} |-> IF x = k THEN v ELSE m[x]]
KeyedDelete(m, k) == [x \in (DOMAIN m) \ {k} |-> m[x]]

\* res.status(s).json(b), or next(new ExpressError(message, s)) answered by
\* the error middleware with {message}.  A message is kept as the text of
\* its template: the ids interpolated into it are not part of the model.
Reply(op, status, body) == [op |-> op, status |-> status, body |-> body]

----------------------------------------------------------------------------
(* q1, q4, q5: the voter registry *)

MinAge == 18

RegisterVoterStatus_NoDuplicateCheck(voter_id, name, age) ==
  IF voter_id = 0 \/ FalsyStr(name) \/ age = Undefined THEN 409
  ELSE IF Val(age) < MinAge THEN 409
  ELSE 0

\* the validation of POST /api/voters: 0 when the request is accepted
RegisterVoterStatus(voter_id, name, age) ==
  IF voter_id = 0 \/ FalsyStr(name) \/ age = Undefined THEN 409
  ELSE IF Val(age) < MinAge THEN 409
  ELSE IF voter_id \in DOMAIN voters THEN 409
  ELSE 0

RegisterVoterError(voter_id, name, age) ==
  IF voter_id = 0 \/ FalsyStr(name) \/ age = Undefined
  THEN "voter_id, name, and age are required"
  ELSE IF Val(age) < MinAge THEN "voter must be at least 18 years old"
  ELSE "voter with id: ${voter_id} already exists"

RegisterVoter(voter_id, name, age) ==
  LET st == RegisterVoterStatus(voter_id, name, age)
      newVoter == [voter_id |-> voter_id, name |-> Val(name), age |-> Val(age),
                   has_voted |-> FALSE]
  IN /\ IF st # 0
        THEN /\ resp' = Reply("POST /api/voters", st,
                              RegisterVoterError(voter_id, name, age))
             /\ UNCHANGED voters
        ELSE /\ voters' = KeyedSet(voters, voter_id, newVoter)
             /\ resp' = Reply("POST /api/voters", 218, newVoter)
     /\ UNCHANGED <<candidates, votes, nextVoteId, encryptedBallots,
                    dpAnalyticsBudget, now,
                 homomorphicTallies, rankedBallots, audits>>

InvalidAgeUpdate_Never(age) == FALSE

\* age !== undefined && age < 18
InvalidAgeUpdate(age) == age # Undefined /\ Val(age) < MinAge

UpdateVoter(voter_id, name, age) ==
  /\ IF voter_id \notin DOMAIN voters
     THEN /\ resp' = Reply("PUT /api/voters/:voter_id", 417,
                           "voter with id: ${voter_id} was not found")
          /\ UNCHANGED voters
     ELSE IF InvalidAgeUpdate(age)
     THEN /\ resp' = Reply("PUT /api/voters/:voter_id", 417,
                           "invalid age: ${age}, must be 18 or older")
          /\ UNCHANGED voters
     ELSE LET voter == voters[voter_id]
              named == IF name # Undefined
                       THEN [voter EXCEPT !.name = Val(name)] ELSE voter
              aged == IF age # Undefined
                      THEN [named EXCEPT !.age = Val(age)] ELSE named
          IN /\ voters' = KeyedSet(voters, voter_id, aged)
             /\ resp' = Reply("PUT /api/voters/:voter_id", 200, aged)
  /\ UNCHANGED <<candidates, votes, nextVoteId, encryptedBallots,
                 dpAnalyticsBudget, now,
                 homomorphicTallies, rankedBallots, audits>>

DeleteVoter(voter_id) ==
  /\ IF voter_id \notin DOMAIN voters
     THEN /\ resp' = Reply("DELETE /api/voters/:voter_id", 417,
                           "voter with id: ${voter_id} was not found")
          /\ UNCHANGED voters
     ELSE /\ voters' = KeyedDelete(voters, voter_id)
          /\ resp' = Reply("DELETE /api/voters/:voter_id", 225,
                           "voter with id: ${voter_id} deleted successfully")
  /\ UNCHANGED <<candidates, votes, nextVoteId, encryptedBallots,
                 dpAnalyticsBudget, now,
                 homomorphicTallies, rankedBallots, audits>>

----------------------------------------------------------------------------
(* q6: the candidate registry *)

RegisterCandidate(candidate_id, name, party) ==
  /\ IF candidate_id = 0 \/ FalsyStr(name) \/ FalsyStr(party)
     THEN /\ resp' = Reply("POST /api/candidates", 409,
                           "candidate_id, name, and party are required")
          /\ UNCHANGED candidates
     ELSE IF MapHas(candidates, candidate_id)
     THEN /\ resp' = Reply("POST /api/candidates", 409,
                           "candidate with id: ${candidate_id} already exists")
          /\ UNCHANGED candidates
     ELSE LET newCandidate == [candidate_id |-> candidate_id, name |-> Val(name),
                               party |-> Val(party), votes |-> 0]
          IN /\ candidates' = MapSet(candidates, candidate_id, newCandidate)
             /\ resp' = Reply("POST /api/candidates", 226, newCandidate)
  /\ UNCHANGED <<voters, votes, nextVoteId, encryptedBallots,
                 dpAnalyticsBudget, now,
                 homomorphicTallies, rankedBallots, audits>>

----------------------------------------------------------------------------
(* q8: the ballot box *)

FirstVoteId == 101

\* new Date().toISOString() and new Date(iso): an instant of t milliseconds is
\* written as its whole seconds and its milliseconds, and read back from them
ToISOString(t) == <<t \div 1000, t % 1000>>
ParseDate(iso) == iso[1] * 1000 + iso[2]

\* the checks of POST /api/votes, in the handler's order: 0 when the vote is
\* to be recorded
CastStatus_SkipVotedCheck(voter_id, candidate_id) ==
  IF voter_id = 0 \/ candidate_id = 0 THEN 409
  ELSE IF voter_id \notin DOMAIN voters THEN 417
  ELSE IF ~MapHas(candidates, candidate_id) THEN 409
  ELSE 0

CastStatus(voter_id, candidate_id) ==
  IF voter_id = 0 \/ candidate_id = 0 THEN 409
  ELSE IF voter_id \notin DOMAIN voters THEN 417
  ELSE IF voters[voter_id].has_voted THEN 423
  ELSE IF ~MapHas(candidates, candidate_id) THEN 409
  ELSE 0

CastError(voter_id, candidate_id) ==
  IF voter_id = 0 \/ candidate_id = 0
  THEN "voter_id and candidate_id are required"
  ELSE IF voter_id \notin DOMAIN voters
  THEN "voter with id: ${voter_id} was not found"
  ELSE IF voters[voter_id].has_voted
  THEN "voter with id: ${voter_id} has already voted"
  ELSE "candidate with id: ${candidate_id} was not found"

\* nextVoteId++ : the counter after the allocation
VoteIdAfter_NoAdvance(id) == id

VoteIdAfter(id) == id + 1

\* candidate.votes += 1
VotesAfter_Twice(n) == n + 2

VotesAfter(n) == n + 1

VotersAfterRefusal_FlagSet(voter_id) ==
  IF voter_id \in DOMAIN voters
  THEN [voters EXCEPT ![voter_id].has_voted = TRUE] ELSE voters

\* each check returns next(err) before the first write of the handler
VotersAfterRefusal(voter_id) == voters

CastVote(voter_id, candidate_id) ==
  LET st == CastStatus(voter_id, candidate_id) IN
  /\ IF st # 0
     THEN /\ resp' = Reply("POST /api/votes", st, CastError(voter_id, candidate_id))
          /\ voters' = VotersAfterRefusal(voter_id)
          /\ UNCHANGED <<candidates, votes, nextVoteId>>
     ELSE LET vote_id == nextVoteId
              newVote == [vote_id |-> vote_id, voter_id |-> voter_id,
                          candidate_id |-> candidate_id,
                          timestamp |-> ToISOString(now)]
              voter == [voters[voter_id] EXCEPT !.has_voted = TRUE]
              candidate == MapGet(candidates, candidate_id)
          IN /\ Len(votes) < MaxVotes
             /\ nextVoteId' = VoteIdAfter(nextVoteId)
             /\ votes' = MapSet(votes, vote_id, newVote)
             /\ voters' = KeyedSet(voters, voter_id, voter)
             /\ candidates' = MapSet(candidates, candidate_id,
                  [candidate EXCEPT !.votes = VotesAfter(candidate.votes)])
             /\ resp' = Reply("POST /api/votes", 228, newVote)
  /\ UNCHANGED <<encryptedBallots, dpAnalyticsBudget, now,
                 homomorphicTallies, rankedBallots, audits>>

\* the system clock read by new Date()
Tick ==
  /\ now < MaxTime * TickMs
  /\ now' = now + TickMs
  /\ UNCHANGED <<voters, candidates, votes, nextVoteId, encryptedBallots,
                 dpAnalyticsBudget, resp,
                 homomorphicTallies, rankedBallots, audits>>

----------------------------------------------------------------------------
(* q11, q12, q15: the results engine *)

\* the comparator of results(): (a, b) => b.votes - a.votes
Compare_Ascending(a, b) == a.votes - b.votes

Compare(a, b) == b.votes - a.votes

\* Array.prototype.sort is stable: x goes before the first element that the
\* comparator orders after it, and behind every element it compares equal to
InsertSorted(s, x) ==
  LET after == {i \in 1..Len(s) : Compare(s[i], x) > 0}
      p == IF after = {} THEN Len(s) + 1
           ELSE CHOOSE i \in after : \A j \in after : i <= j
  IN SubSeq(s, 1, p - 1) \o <<x>> \o SubSeq(s, p, Len(s))

RECURSIVE SortPrefix(_, _)
SortPrefix(a, n) == IF n = 0 THEN <<>> ELSE InsertSorted(SortPrefix(a, n - 1), a[n])

ArraySort(a) == SortPrefix(a, Len(a))

\* ({candidate_id, name, votes}) => ({candidate_id, name, votes})
Tally(c) == [candidate_id |-> c.candidate_id, name |-> c.name, votes |-> c.votes]

TallyAll(a) == [i \in 1..Len(a) |-> Tally(a[i])]

Results == ArraySort(TallyAll(MapValues(candidates)))

GetResults ==
  /\ resp' = Reply("GET /api/results", 231, [results |-> Results])
  /\ UNCHANGED <<voters, candidates, votes, nextVoteId, encryptedBallots,
                 dpAnalyticsBudget, now,
                 homomorphicTallies, rankedBallots, audits>>

\* Math.max(...allCandidates.map(c => c.votes)) of a non-empty array
MaxVotesOf(a) ==
  LET vs == {a[i].votes : i \in 1..Len(a)} IN CHOOSE m \in vs : \A v \in vs : v <= m

\* allCandidates.filter(c => c.votes === maxVotes).map(...)
Winners_FirstOnly(a) ==
  LET maxVotes == MaxVotesOf(a)
      first == CHOOSE i \in 1..Len(a) :
                 a[i].votes = maxVotes /\ \A j \in 1..(i - 1) : a[j].votes # maxVotes
  IN <<Tally(a[first])>>

Winners(a) ==
  LET maxVotes == MaxVotesOf(a)
      IsMax(c) == c.votes = maxVotes
  IN TallyAll(SelectSeq(a, IsMax))

GetWinner ==
  LET allCandidates == MapValues(candidates) IN
  /\ IF Len(allCandidates) = 0
     THEN resp' = Reply("GET /api/results/winner", 417, "No candidates found")
     ELSE resp' = Reply("GET /api/results/winner", 232,
                        [winners |-> Winners(allCandidates)])
  /\ UNCHANGED <<voters, candidates, votes, nextVoteId, encryptedBallots,
                 dpAnalyticsBudget, now,
                 homomorphicTallies, rankedBallots, audits>>

\* ts >= from && ts <= to, on the instants of the three dates
InRange_ExclusiveEnd(ts, from, to) == ts >= from /\ ts < to

InRange(ts, from, to) == ts >= from /\ ts <= to

\* the two filters of range() and the length of what they keep
VotesGained(candidate_id, from, to) ==
  LET all == MapValues(votes)
      OfCandidate(v) == v.candidate_id = candidate_id
      Within(v) == InRange(ParseDate(v.timestamp), from, to)
  IN Len(SelectSeq(SelectSeq(all, OfCandidate), Within))

\* candidate_id is parseInt(req.query.candidate_id), 0 standing for 0 and NaN;
\* from and to are new Date(req.query.from / to): undefined is an Invalid Date
GetRange(candidate_id, from, to) ==
  /\ IF candidate_id = 0 \/ ~MapHas(candidates, candidate_id)
     THEN resp' = Reply("GET /api/votes/range", 417,
                        "candidate with id: ${candidate_id} was not found")
     ELSE IF from = Undefined \/ to = Undefined
     THEN resp' = Reply("GET /api/votes/range", 400, "Invalid date format")
     ELSE IF ParseDate(Val(from)) > ParseDate(Val(to))
     THEN resp' = Reply("GET /api/votes/range", 424, "invalid interval: from > to")
     ELSE resp' = Reply("GET /api/votes/range", 235,
            [candidate_id |-> candidate_id,
             from |-> ToISOString(ParseDate(Val(from))),
             to |-> ToISOString(ParseDate(Val(to))),
             votes_gained |-> VotesGained(candidate_id, ParseDate(Val(from)),
                                          ParseDate(Val(to)))])
  /\ UNCHANGED <<voters, candidates, votes, nextVoteId, encryptedBallots,
                 dpAnalyticsBudget, now,
                 homomorphicTallies, rankedBallots, audits>>

----------------------------------------------------------------------------
(* q16: the encrypted ballot vault *)

\* placeholder of the source: every proof is accepted
VerifyZKProof(ciphertext, zk_proof, voter_pubkey, nullifier, signature) == TRUE

\* [...encryptedBallots.values()].some(b => b.nullifier === nullifier)
NullifierStored_LastOnly(nullifier) ==
  /\ Len(encryptedBallots) > 0
  /\ encryptedBallots[Len(encryptedBallots)][2].nullifier = nullifier

NullifierStored(nullifier) ==
  \E i \in 1..Len(encryptedBallots) : encryptedBallots[i][2].nullifier = nullifier

\* uuid is the value uuidv4() returns: a token no stored ballot carries
SubmitEncrypted(election_id, ciphertext, zk_proof, voter_pubkey, nullifier, signature, uuid) ==
  /\ IF \/ FalsyStr(election_id) \/ FalsyStr(ciphertext) \/ FalsyStr(zk_proof)
        \/ FalsyStr(voter_pubkey) \/ nullifier = 0 \/ FalsyStr(signature)
     THEN /\ resp' = Reply("POST /api/ballots/encrypted", 400,
                           "All fields are required")
          /\ UNCHANGED encryptedBallots
     ELSE IF NullifierStored(nullifier)
     THEN /\ resp' = Reply("POST /api/ballots/encrypted", 409,
                           "duplicate nullifier: ballot already submitted")
          /\ UNCHANGED encryptedBallots
     ELSE IF ~VerifyZKProof(ciphertext, zk_proof, voter_pubkey, nullifier, signature)
     THEN /\ resp' = Reply("POST /api/ballots/encrypted", 425, "invalid zk proof")
          /\ UNCHANGED encryptedBallots
     ELSE LET ballot_id == <<"b_", uuid>>
              newBallot == [ballot_id |-> ballot_id, status |-> "accepted",
                            nullifier |-> nullifier,
                            anchored_at |-> ToISOString(now)]
          IN /\ ~MapHas(encryptedBallots, ballot_id)
             /\ encryptedBallots' = MapSet(encryptedBallots, ballot_id, newBallot)
             /\ resp' = Reply("POST /api/ballots/encrypted", 236, newBallot)
  /\ UNCHANGED <<voters, candidates, votes, nextVoteId, dpAnalyticsBudget, now,
                 homomorphicTallies, rankedBallots, audits>>

----------------------------------------------------------------------------
(* q18: the differential-privacy budget *)

(* The budget arithmetic is IEEE-754 binary64.  The numbers of the model are
   the tenths k / 10 a request can carry and the sums of such numbers; each
   is kept exactly, as <<t, n>> standing for t / 10 + n / (5 * 2^56) with n
   small: every double between 1/16 and 4 is a multiple of 2^-56, and a
   tenth is a multiple of 1 / (5 * 2^55). *)

\* the double a JSON number t / 10 parses to is t / 10 + TenthError[t + 1] / (5 * 2^56)
TenthError == <<0, 2, 4, -4, 8, 0, -8, -16, 16, 8, 0, 32, -16, 16, -32, 0, 32,
                -16, 16, -32, 0, 32, 64, -64, -32>>
\* the last bit of that double's significand
TenthOdd == <<0, 0, 0, 1, 0, 0, 1, 0, 0, 1, 0, 0, 1, 1, 0, 0, 0, 1, 1, 0, 0,
              1, 0, 0, 1>>

\* JSON.parse of the number t / 10
Double(t) == <<t, TenthError[t + 1]>>

\* the distance between neighbouring doubles around t / 10, in units of 2^-56
UlpAt(t) ==
  IF t = 0 THEN 1 ELSE IF 8 * t < 10 THEN 1 ELSE IF 4 * t < 10 THEN 2
  ELSE IF 2 * t < 10 THEN 4 ELSE IF t < 10 THEN 8 ELSE IF t < 20 THEN 16 ELSE 32

\* 0.5, 1.0 and 2.0 are powers of two: the doubles below them lie twice as dense
PowerOfTwo(t) == t \in {5, 10, 20}

\* round to nearest, ties to even: the double nearest to t / 10 + n / (5 * 2^56),
\* for t >= 0
RoundMagnitude(t, n) ==
  LET r == n - TenthError[t + 1]
      step == 5 * (IF r < 0 /\ PowerOfTwo(t) THEN UlpAt(t) \div 2 ELSE UlpAt(t))
      a == IF r < 0 THEN -r ELSE r
      q == a \div step
      rem == a % step
      j == IF 2 * rem < step THEN q
           ELSE IF 2 * rem > step THEN q + 1
           ELSE IF (TenthOdd[t + 1] + q) % 2 = 0 THEN q ELSE q + 1
  IN <<t, TenthError[t + 1] + (IF r < 0 THEN -(j * step) ELSE j * step)>>

\* rounding is symmetric about zero
RoundToDouble(t, n) ==
  IF t < 0 THEN LET m == RoundMagnitude(-t, -n) IN <<-m[1], -m[2]>>
  ELSE RoundMagnitude(t, n)

\* x + y and x - y of two doubles
FAdd(x, y) == RoundToDouble(x[1] + y[1], x[2] + y[2])
FSub(x, y) == RoundToDouble(x[1] - y[1], x[2] - y[2])

\* x <= y and x > y: n stays far below the 2^55 units that make one tenth
FLeq(x, y) == x[1] < y[1] \/ (x[1] = y[1] /\ x[2] <= y[2])
FGt(x, y) == ~FLeq(x, y)

\* const maxBudget = 1.0
MaxBudgetTenths == 10
MaxBudget == Double(MaxBudgetTenths)
Zero == Double(0)

\* dpAnalyticsBudget.get(election_id) || 0
BudgetOf(budget, election_id) ==
  IF election_id \in DOMAIN budget THEN budget[election_id] ELSE Zero

\* currentBudget + epsilon > maxBudget
ExceedsBudget_EpsilonAlone(currentBudget, epsilon) == FGt(epsilon, MaxBudget)

ExceedsBudget(currentBudget, epsilon) == FGt(FAdd(currentBudget, epsilon), MaxBudget)

\* query is undefined or an object whose fields may be missing; epsilon and
\* delta are undefined (any value that is not a number) or the number k / 10;
\* noise is what Math.floor(Math.random() * 100) returns for each bucket
DpQuery(election_id, query, epsilon, delta, noise) ==
  LET op == "POST /api/analytics/dp" IN
  /\ IF \/ election_id = 0 \/ query = Undefined \/ FalsyStr(Val(query).type)
        \/ FalsyStr(Val(query).dimension) \/ Val(query).buckets = Undefined
     THEN /\ resp' = Reply(op, 400,
                 "election_id and valid query parameters are required")
          /\ UNCHANGED dpAnalyticsBudget
     ELSE IF epsilon = Undefined \/ Val(epsilon) <= 0
     THEN /\ resp' = Reply(op, 400, "epsilon must be a positive number")
          /\ UNCHANGED dpAnalyticsBudget
     ELSE IF delta = Undefined \/ Val(delta) < 0 \/ Val(delta) > 10
     THEN /\ resp' = Reply(op, 400, "delta must be between 0 and 1")
          /\ UNCHANGED dpAnalyticsBudget
     ELSE LET currentBudget == BudgetOf(dpAnalyticsBudget, election_id)
              eps == Double(Val(epsilon))
              buckets == Val(Val(query).buckets)
              spent == FAdd(currentBudget, eps)
          IN IF ExceedsBudget(currentBudget, eps)
             THEN /\ resp' = Reply(op, 403,
                        "Differential privacy budget exceeded for this election")
                  /\ UNCHANGED dpAnalyticsBudget
             ELSE /\ dpAnalyticsBudget' = KeyedSet(dpAnalyticsBudget, election_id, spent)
                  /\ resp' = Reply(op, 200,
                       [election_id |-> election_id,
                        query_type |-> Val(Val(query).type),
                        dimension |-> Val(Val(query).dimension),
                        histogram |-> [b \in {buckets[i] : i \in 1..Len(buckets)}
                                         |-> noise],
                        epsilon_used |-> eps,
                        delta_used |-> Val(delta),
                        remaining_budget |-> FSub(MaxBudget, spent)])
  /\ UNCHANGED <<voters, candidates, votes, nextVoteId, encryptedBallots, now,
                 homomorphicTallies, rankedBallots, audits>>

----------------------------------------------------------------------------
(* The state after the module is loaded *)

----------------------------------------------------------------------------
(* q7, q10: the two handlers of GET /api/candidates *)

\* String.prototype.toLowerCase on the party names of the requests
ToLowerCase(str) ==
  CASE str \in {"Red", "RED", "red"} -> "red"
    [] str \in {"Blue", "BLUE", "blue"} -> "blue"
    [] OTHER -> str

\* ({ candidate_id, name, party }) => ({ candidate_id, name, party })
Listed(c) == [candidate_id |-> c.candidate_id, name |-> c.name, party |-> c.party]

RECURSIVE Listing(_)
Listing(a) ==
  IF a = <<>> THEN <<>>
  ELSE Append(Listing(SubSeq(a, 1, Len(a) - 1)), Listed(a[Len(a)]))

\* q7: the handler registered first; it reads no query parameter
ListAll == Reply("GET /api/candidates", 227,
                 [candidates |-> Listing(MapValues(candidates))])

\* q10: the handler registered second; party is req.query.party
ListByParty(party) ==
  LET Matches(c) == ToLowerCase(c.party) = ToLowerCase(Val(party))
      result == IF FalsyStr(party) THEN MapValues(candidates)
                ELSE SelectSeq(MapValues(candidates), Matches)
  IN Reply("GET /api/candidates", 230, [candidates |-> Listing(result)])

\* the handlers of the route in the order of their registration: the router
\* calls the first, and a later one only if that one calls next()
CandidateListHandlers == <<"q7", "q10">>
CallsNext(handler) == FALSE

RECURSIVE Dispatch(_, _)
Dispatch(handlers, party) ==
  LET h == Head(handlers)
  IN IF CallsNext(h) /\ Len(handlers) > 1 THEN Dispatch(Tail(handlers), party)
     ELSE IF h = "q7" THEN ListAll ELSE ListByParty(party)

GetCandidates(party) ==
  /\ resp' = Dispatch(CandidateListHandlers, party)
  /\ UNCHANGED <<voters, candidates, votes, nextVoteId, encryptedBallots,
                 dpAnalyticsBudget, homomorphicTallies, rankedBallots, audits,
                 now>>

----------------------------------------------------------------------------
(* q14: the weighted vote issuer *)

(* voter_id and candidate_id are query parameters: 0 stands for a missing or
   empty one, any other number for the string of its digits; rnd is what
   Math.floor(Math.random() * 1000) returns. *)

WeightedIdBase == 200

\* voter.profile_updated ? 2 : 1; no handler gives a voter record the field
\* profile_updated
Weight(voter) == IF "profile_updated" \in DOMAIN voter /\ voter.profile_updated THEN 2 ELSE 1

ReceiptLedger_Stored(ledger, vote_id, vote) == MapSet(ledger, vote_id, vote)

\* the receipt is not stored: votes.set(vote_id, vote) is commented out
ReceiptLedger(ledger, vote_id, vote) == ledger

IssueWeighted(voter_id, candidate_id, rnd) ==
  LET op == "POST /api/votes/weighted" IN
  /\ IF voter_id = 0 \/ candidate_id = 0
     THEN /\ resp' = Reply(op, 400, "voter_id and candidate_id are required")
          /\ UNCHANGED votes
     ELSE IF voter_id \notin DOMAIN voters
     THEN /\ resp' = Reply(op, 404, "Voter with id: ${voter_id} not found")
          /\ UNCHANGED votes
     ELSE LET vote_id == rnd + WeightedIdBase
              vote == [vote_id |-> vote_id, voter_id |-> voter_id,
                       candidate_id |-> candidate_id,
                       weight |-> Weight(voters[voter_id])]
          IN /\ votes' = ReceiptLedger(votes, vote_id, vote)
             /\ resp' = Reply(op, 234, vote)
  /\ UNCHANGED <<voters, candidates, nextVoteId, encryptedBallots,
                 dpAnalyticsBudget, homomorphicTallies, rankedBallots, audits,
                 now>>

----------------------------------------------------------------------------
(* q17: the homomorphic tally service *)

(* trustee_decrypt_shares is undefined (any value that is no array) or an
   array of shares whose three fields may be missing; root and leaf are what
   the two Math.random() draws give. *)

Share(trustee_id, share, proof) ==
  [trustee_id |-> trustee_id, share |-> share, proof |-> proof]

\* !share.trustee_id || !share.share || !share.proof, for some share
MalformedShare(shares) ==
  \E i \in 1..Len(shares) :
     \/ FalsyStr(shares[i].trustee_id) \/ FalsyStr(shares[i].share)
     \/ FalsyStr(shares[i].proof)

\* candidates is a Map (line 130): Array.prototype.map is no property of it,
\* and calling candidates.map throws a TypeError
HasArrayMap(kind) == kind = "Array"

\* candidate => ({ candidate_id: candidate.id, votes: candidate.votes });
\* a candidate record has no field id
TallyEntry(candidate) == [candidate_id |-> Undefined, votes |-> candidate.votes]

RECURSIVE CandidateTallies(_)
CandidateTallies(a) ==
  IF a = <<>> THEN <<>>
  ELSE Append(CandidateTallies(SubSeq(a, 1, Len(a) - 1)), TallyEntry(a[Len(a)]))

\* the error handler's defaults for an error that is no ExpressError
DefaultErrorStatus == 500

Aggregate(election_id, trustee_decrypt_shares, root, leaf) ==
  LET op == "POST /api/results/homomorphic" IN
  /\ IF \/ election_id = 0 \/ trustee_decrypt_shares = Undefined
        \/ Len(Val(trustee_decrypt_shares)) = 0
     THEN /\ resp' = Reply(op, 400,
                 "election_id and trustee_decrypt_shares are required")
          /\ UNCHANGED homomorphicTallies
     ELSE IF MalformedShare(Val(trustee_decrypt_shares))
     THEN /\ resp' = Reply(op, 400,
                 "Each trustee share must have trustee_id, share, and proof")
          /\ UNCHANGED homomorphicTallies
     ELSE IF ~HasArrayMap("Map")
     THEN \* the TypeError rejects the handler's promise; asyncWrap passes it
          \* to the error handler
          /\ resp' = Reply(op, DefaultErrorStatus, "candidates.map is not a function")
          /\ UNCHANGED homomorphicTallies
     ELSE LET result ==
                [election_id |-> election_id,
                 encrypted_tally_root |-> <<"0x", root>>,
                 candidate_tallies |-> CandidateTallies(MapValues(candidates)),
                 decryption_proof |->
                   "base64(batch_proof_linking_cipher_aggregate_to_plain_counts)",
                 transparency |-> [ballot_merkle_root |-> <<"0x", leaf>>,
                                   tally_method |-> "threshold_paillier",
                                   threshold |-> "3-of-5"]]
          IN /\ homomorphicTallies' = MapSet(homomorphicTallies, election_id, result)
             /\ resp' = Reply(op, 237, result)
  /\ UNCHANGED <<voters, candidates, votes, nextVoteId, encryptedBallots,
                 dpAnalyticsBudget, rankedBallots, audits, now>>

----------------------------------------------------------------------------
(* q19: the ranked-ballot store *)

(* election_id and voter_id reach the handler as JSON values and are used
   only through the template literal that builds the store's key: each is
   modelled as the string that literal makes of it, a sequence of
   characters, the empty sequence being a falsy (missing or empty) value.
   ranking is undefined or a value that is an array or not, with its items;
   timestamp is undefined (any value new Date() does not parse) or an ISO
   string; rnd is what Math.floor(Math.random() * 10000) returns. *)

\* `${election_id}_${voter_id}`
VoterKey(election_id, voter_id) == election_id \o <<"_">> \o voter_id

RankingValue(isArray, items) == Some([isArray |-> isArray, items |-> items])

\* !ranking || !Array.isArray(ranking) || ranking.length === 0
BadRanking(ranking) ==
  \/ ranking = Undefined
  \/ ~Val(ranking).isArray
  \/ Len(Val(ranking).items) = 0

SubmitRanked(election_id, voter_id, ranking, timestamp, rnd) ==
  LET op == "POST /api/ballots/ranked" IN
  /\ IF election_id = <<>> \/ voter_id = <<>> \/ BadRanking(ranking)
     THEN /\ resp' = Reply(op, 400,
                 "election_id, voter_id, and valid ranking array are required")
          /\ UNCHANGED rankedBallots
     ELSE IF timestamp = Undefined
     THEN /\ resp' = Reply(op, 400, "invalid timestamp format")
          /\ UNCHANGED rankedBallots
     ELSE LET voterKey == VoterKey(election_id, voter_id) IN
          IF MapHas(rankedBallots, voterKey)
          THEN /\ resp' = Reply(op, 409,
                 "voter with id: ${voter_id} has already submitted a ranked ballot for election ${election_id}")
               /\ UNCHANGED rankedBallots
          ELSE LET ballot_id == <<"rb_", rnd>> IN
               /\ rankedBallots' = MapSet(rankedBallots, voterKey,
                    [ballot_id |-> ballot_id, election_id |-> election_id,
                     voter_id |-> voter_id, ranking |-> Val(ranking).items,
                     timestamp |-> ToISOString(ParseDate(Val(timestamp)))])
               /\ resp' = Reply(op, 200,
                    [ballot_id |-> ballot_id, status |-> "accepted"])
  /\ UNCHANGED <<voters, candidates, votes, nextVoteId, encryptedBallots,
                 dpAnalyticsBudget, homomorphicTallies, audits, now>>

----------------------------------------------------------------------------
(* q20: the audit planner *)

(* reported_tallies is undefined (or any value that is no array) or an array
   of tallies, each with votes undefined or a non-negative integer;
   risk_limit_alpha is undefined (any value that is no number) or the number
   k / 10; stratification is undefined or an object, kept as a name; rnd is
   what Math.floor(Math.random() * 10000) returns. *)

MinSampleSize == 100
MaxSampleSize == 5000
SamplePercent == 3

\* reported_tallies.reduce((sum, c) => sum + (c.votes || 0), 0)
RECURSIVE TotalVotes(_)
TotalVotes(reported_tallies) ==
  IF reported_tallies = <<>> THEN 0
  ELSE LET n == Len(reported_tallies)
           c == reported_tallies[n]
       IN TotalVotes(SubSeq(reported_tallies, 1, n - 1))
             + (IF c.votes = Undefined THEN 0 ELSE Val(c.votes))

\* Math.floor(total_votes * 0.03).  The double 0.03 lies 1.2e-18 below 3/100
\* and the product is rounded to the nearest double: for a whole number of
\* votes that is a multiple of 100 the product rounds to the whole number
\* 3 * total_votes / 100, and for any other it stays at least 0.01 minus a
\* rounding error above the whole number below it, so the floor is the
\* floor of the exact quotient.
ThreePercent(total_votes) == (SamplePercent * total_votes) \div 100

Min(a, b) == IF a < b THEN a ELSE b
Max(a, b) == IF a > b THEN a ELSE b

SampleSize_NoUpperClamp(total_votes) ==
  Max(ThreePercent(total_votes), MinSampleSize)

\* Math.min(Math.max(Math.floor(total_votes * 0.03), 100), 5000)
SampleSize(total_votes) ==
  Min(Max(ThreePercent(total_votes), MinSampleSize), MaxSampleSize)

\* Buffer.from(JSON.stringify(stratification || {})).toString("base64")
SamplingPlan(stratification) ==
  <<"base64", IF stratification = Undefined THEN "{}" ELSE Val(stratification)>>

\* `rla_${Math.floor(Math.random() * 10000)}`
AuditId(rnd) == <<"rla_", rnd>>

PlanAudit(election_id, reported_tallies, risk_limit_alpha, audit_type, stratification, rnd) ==
  LET op == "POST /api/audits/plan" IN
  /\ IF \/ election_id = 0 \/ reported_tallies = Undefined
        \/ Len(Val(reported_tallies)) = 0
     THEN /\ resp' = Reply(op, 400, "election_id and reported_tallies are required")
          /\ UNCHANGED audits
     ELSE IF \/ risk_limit_alpha = Undefined \/ Val(risk_limit_alpha) <= 0
             \/ Val(risk_limit_alpha) >= 10
     THEN /\ resp' = Reply(op, 400,
                 "risk_limit_alpha must be a number between 0 and 1")
          /\ UNCHANGED audits
     ELSE IF audit_type # Some("ballot_polling")
     THEN /\ resp' = Reply(op, 400,
                 "unsupported audit_type; only 'ballot_polling' supported")
          /\ UNCHANGED audits
     ELSE LET audit_id == AuditId(rnd)
              total_votes == TotalVotes(Val(reported_tallies))
              auditPlan == [audit_id |-> audit_id,
                            initial_sample_size |-> SampleSize(total_votes),
                            sampling_plan |-> SamplingPlan(stratification),
                            test |-> "kaplan-markov", status |-> "planned"]
          IN /\ audits' = MapSet(audits, audit_id, auditPlan)
             /\ resp' = Reply(op, 240, auditPlan)
  /\ UNCHANGED <<voters, candidates, votes, nextVoteId, encryptedBallots,
                 dpAnalyticsBudget, homomorphicTallies, rankedBallots, now>>

Init ==
  /\ voters = <<>>
  /\ candidates = <<>>
  /\ votes = <<>>
  /\ nextVoteId = FirstVoteId
  /\ encryptedBallots = <<>>
  /\ dpAnalyticsBudget = <<>>
  /\ homomorphicTallies = <<>>
  /\ rankedBallots = <<>>
  /\ audits = <<>>
  /\ now = 0
  /\ resp = Reply("listen", 0, "")

----------------------------------------------------------------------------
(* Requests on the ledger: voters, candidates and casts *)

NameInputs == {Some("Ann")}
AgeInputs == {Some(17), Some(18)}
NameUpdates == {Undefined, Some("Ann")}
AgeUpdates == {Undefined, Some(17)}
PartyInputs == {Undefined, Some("Red")}

NextLedger ==
  \/ \E v \in VoterIdInputs, n \in NameInputs, a \in AgeInputs : RegisterVoter(v, n, a)
  \/ \E v \in VoterIdInputs, n \in NameUpdates, a \in AgeUpdates : UpdateVoter(v, n, a)
  \/ \E v \in VoterIdInputs : DeleteVoter(v)
  \/ \E c \in CandidateIdInputs, n \in NameInputs, p \in PartyInputs :
        \* the ledger does not depend on the order of registration: candidates
        \* are registered by increasing id here (SpecResults takes every order)
        /\ c <= Len(candidates) + 1
        /\ RegisterCandidate(c, n, p)
  \/ \E v \in VoterIdInputs, c \in CandidateIdInputs : CastVote(v, c)

SpecLedger == Init /\ [][NextLedger]_vars

----------------------------------------------------------------------------
(* Requests on the rankings: registrations, casts, results() and winner() *)

NextResults ==
  \/ \E v \in 1..MaxVoterId : RegisterVoter(v, Some("Ann"), Some(18))
  \/ \E c \in RankedCandidateIdInputs : RegisterCandidate(c, Some("Cy"), Some("Red"))
  \/ \E v \in VoterIdInputs, c \in RankedCandidateIdInputs : CastVote(v, c)
  \/ GetResults
  \/ GetWinner

SpecResults == Init /\ [][NextResults]_vars

----------------------------------------------------------------------------
(* Requests on the time ranges: registrations, casts at the clock's instants
   and range() *)

BadDateInputs == {Undefined, Some(ToISOString(0))}

NextRange ==
  \/ \E v \in 1..MaxVoterId :
        \* a range count does not depend on the order of registration
        /\ v = Cardinality(DOMAIN voters) + 1
        /\ RegisterVoter(v, Some("Ann"), Some(18))
  \/ \E c \in 1..MaxCandidateId :
        /\ c = Len(candidates) + 1
        /\ RegisterCandidate(c, Some("Cy"), Some("Red"))
  \/ \E v \in 1..MaxVoterId, c \in 1..MaxCandidateId :
        \* nor on which voter casts: the voters cast in the order of their ids
        /\ \A w \in 1..(v - 1) : w \in DOMAIN voters /\ voters[w].has_voted
        /\ CastVote(v, c)
  \/ Tick
  \* requests with a candidate id and two dates
  \/ \E c \in 1..MaxCandidateId, f \in Instants, t \in Instants :
        GetRange(c, Some(ToISOString(f)), Some(ToISOString(t)))
  \* requests without a candidate id or with a date that does not parse
  \/ \E c \in 0..1, f \in BadDateInputs, t \in BadDateInputs :
        /\ c = 0 \/ Undefined \in {f, t}
        /\ GetRange(c, f, t)

SpecRange == Init /\ [][NextRange]_vars

----------------------------------------------------------------------------
(* Requests on the vault: submissions at the clock's instants *)

FieldInputs == {Undefined, Some("x")}
CiphertextInputs == {Undefined, Some("x"), Some("y")}

NextVault ==
  \* submissions with all six fields present
  \/ \E c \in {Some("x"), Some("y")}, n \in 1..MaxNullifier, u \in 1..MaxBallots :
        SubmitEncrypted(Some("x"), c, Some("x"), Some("x"), n, Some("x"), u)
  \* submissions with any field missing
  \/ \E e \in FieldInputs, c \in CiphertextInputs, z \in FieldInputs,
        k \in FieldInputs, n \in 0..1, g \in FieldInputs :
        /\ \/ Undefined \in {e, c, z, k, g}
           \/ n = 0
        /\ SubmitEncrypted(e, c, z, k, n, g, 1)
  \/ Tick

SpecVault == Init /\ [][NextVault]_vars

----------------------------------------------------------------------------
(* Requests on the privacy budget *)

Query(type, dimension, buckets) ==
  Some([type |-> type, dimension |-> dimension, buckets |-> buckets])

ValidQuery == Query(Some("histogram"), Some("age"), Some(<<"18-25">>))
EmptyBucketsQuery == Query(Some("histogram"), Some("age"), Some(<<>>))
QueryInputs ==
  { Undefined, ValidQuery, EmptyBucketsQuery,
    Query(Some("histogram"), Some("age"), Undefined),
    Query(Undefined, Some("age"), Some(<<"18-25">>)),
    Query(Some("histogram"), Undefined, Some(<<"18-25">>)) }
EpsilonInputs == {Some(k) : k \in 1..MaxEpsilonTenths}
BadEpsilonInputs == {Undefined, Some(-1), Some(0)}
DeltaInputs == {Undefined, Some(-1), Some(0), Some(10), Some(11)}
NoiseInputs == {0, 99}

NextDP ==
  \* requests that reach the budget check
  \/ \E e \in 1..MaxElectionId, eps \in EpsilonInputs :
        DpQuery(e, ValidQuery, eps, Some(0), 0)
  \* requests with or without an election id, any query and any noise
  \/ \E e \in 0..1, q \in QueryInputs, noise \in NoiseInputs :
        DpQuery(e, q, Some(1), Some(10), noise)
  \* requests with any epsilon that is no positive number, and any delta
  \/ \E eps \in BadEpsilonInputs \cup {Some(1)}, d \in DeltaInputs :
        DpQuery(1, ValidQuery, eps, d, 0)

SpecDP == Init /\ [][NextDP]_vars

----------------------------------------------------------------------------
(* Requests on the ranked-ballot store *)

ElectionIdStrings == {<<>>, <<"1">>, <<"1", "_", "2">>}
VoterIdStrings == {<<>>, <<"3">>, <<"2", "_", "3">>}
RankingInputs == {RankingValue(TRUE, <<1, 2>>), RankingValue(TRUE, <<2, 1>>)}
BadRankingInputs ==
  {Undefined, RankingValue(TRUE, <<>>), RankingValue(FALSE, <<"1", "2">>)}
RandomInputs == {0, 9999}

NextRanked ==
  \* submissions with both identifiers and a ranking
  \/ \E e \in ElectionIdStrings \ {<<>>}, v \in VoterIdStrings \ {<<>>},
        r \in RankingInputs, rnd \in RandomInputs :
        SubmitRanked(e, v, r, Some(ToISOString(0)), rnd)
  \* submissions with any field missing or malformed
  \/ \E e \in ElectionIdStrings, v \in VoterIdStrings,
        r \in RankingInputs \cup BadRankingInputs,
        t \in {Undefined, Some(ToISOString(TickMs))} :
        /\ e = <<>> \/ v = <<>> \/ r \in BadRankingInputs \/ t = Undefined
        /\ SubmitRanked(e, v, r, t, 0)

SpecRanked == Init /\ [][NextRanked]_vars

----------------------------------------------------------------------------
(* Requests on the audit planner *)

TallyOf(candidate_id, count) == [candidate_id |-> candidate_id, votes |-> count]

TallyInputs ==
  { <<TallyOf(1, Some(0))>>,
    <<TallyOf(1, Some(3367))>>,
    <<TallyOf(1, Some(5000)), TallyOf(2, Some(5000))>>,
    <<TallyOf(1, Some(3367)), TallyOf(2, Undefined), TallyOf(3, Some(5000))>>,
    <<TallyOf(1, Some(166666)), TallyOf(2, Some(1))>>,
    <<TallyOf(1, Some(500000)), TallyOf(2, Some(500000))>> }
AlphaInputs == {Undefined, Some(-1), Some(0), Some(1), Some(9), Some(10)}
AuditTypeInputs == {Undefined, Some("ballot_polling"), Some("comparison")}
StratificationInputs == {Undefined, Some("{by: county}")}

NextAudit ==
  \* requests that are planned
  \/ \E t \in TallyInputs, rnd \in RandomInputs :
        PlanAudit(1, Some(t), Some(1), Some("ballot_polling"), Undefined, rnd)
  \* requests with any election id, tallies or none, and any stratification
  \/ \E e \in 0..1, t \in {Undefined, Some(<<>>), Some(<<TallyOf(1, Some(0))>>)},
        x \in StratificationInputs :
        PlanAudit(e, t, Some(1), Some("ballot_polling"), x, 0)
  \* requests with any risk limit and any audit type
  \/ \E a \in AlphaInputs, k \in AuditTypeInputs :
        PlanAudit(1, Some(<<TallyOf(1, Some(0))>>), a, k, Undefined, 0)

SpecAudit == Init /\ [][NextAudit]_vars

----------------------------------------------------------------------------
(* Requests on the voter registry alone *)

RegistryNames == {Undefined, Some("Ann"), Some("Bob")}
RegistryAges == {Undefined, Some(17), Some(18), Some(19)}

NextRegistry ==
  \/ \E v \in VoterIdInputs, n \in RegistryNames, a \in RegistryAges :
        RegisterVoter(v, n, a)
  \/ \E v \in VoterIdInputs, n \in RegistryNames, a \in RegistryAges :
        UpdateVoter(v, n, a)
  \/ \E v \in VoterIdInputs : DeleteVoter(v)

SpecRegistry == Init /\ [][NextRegistry]_vars

----------------------------------------------------------------------------
(* Requests on the candidate list *)

ListedParties == {Some("Red"), Some("RED"), Some("Blue")}
PartyQueries == {Undefined, Some("red"), Some("Blue")}

NextCandidates ==
  \/ \E c \in CandidateIdInputs, n \in {Some("Cy"), Some("Di")},
        p \in ListedParties \cup {Undefined} : RegisterCandidate(c, n, p)
  \/ \E p \in PartyQueries : GetCandidates(p)

SpecCandidates == Init /\ [][NextCandidates]_vars

----------------------------------------------------------------------------
(* Requests on the tally service: registrations, casts and aggregate() *)

GoodShare == Share(Some("t1"), Some("s"), Some("p"))
ShareInputs ==
  { Undefined, Some(<<>>), Some(<<GoodShare>>), Some(<<GoodShare, GoodShare>>),
    Some(<<GoodShare, Share(Some("t2"), Undefined, Some("p"))>>),
    Some(<<Share(Undefined, Some("s"), Some("p"))>>),
    Some(<<Share(Some("t1"), Some("s"), Undefined)>>) }

NextTally ==
  \/ \E v \in 1..MaxVoterId : RegisterVoter(v, Some("Ann"), Some(18))
  \/ \E c \in 1..MaxCandidateId :
        /\ c = Len(candidates) + 1
        /\ RegisterCandidate(c, Some("Cy"), Some("Red"))
  \/ \E v \in 1..MaxVoterId, c \in 1..MaxCandidateId : CastVote(v, c)
  \/ \E e \in 0..MaxElectionId, x \in ShareInputs : Aggregate(e, x, 0, 0)

SpecTally == Init /\ [][NextTally]_vars

----------------------------------------------------------------------------
(* Requests on the weighted vote issuer: registrations, casts and issue() *)

WeightedRandomInputs == {0, 999}

NextWeighted ==
  \/ \E v \in 1..MaxVoterId : RegisterVoter(v, Some("Ann"), Some(18))
  \/ \E c \in 1..MaxCandidateId :
        /\ c = Len(candidates) + 1
        /\ RegisterCandidate(c, Some("Cy"), Some("Red"))
  \/ \E v \in VoterIdInputs, c \in CandidateIdInputs : CastVote(v, c)
  \/ \E v \in VoterIdInputs, c \in CandidateIdInputs, rnd \in WeightedRandomInputs :
        IssueWeighted(v, c, rnd)

SpecWeighted == Init /\ [][NextWeighted]_vars

----------------------------------------------------------------------------
(* The whole server: every request of the five groups above *)

Next ==
  \/ NextLedger \/ NextResults \/ NextRange \/ NextVault \/ NextDP
  \/ NextRanked \/ NextAudit \/ NextRegistry \/ NextCandidates
  \/ NextTally \/ NextWeighted

Spec == Init /\ [][Next]_vars

----------------------------------------------------------------------------
(* The ledger: at most one vote per voter record, counters, vote ids *)

VotesOfVoter(v) == {i \in 1..Len(votes) : votes[i][2].voter_id = v}
VotesOfCandidate(c) == {i \in 1..Len(votes) : votes[i][2].candidate_id = c}
LedgerState == <<voters, candidates, votes, nextVoteId>>

\* C1: once a cast has succeeded for a voter record, has_voted stays set for
\* as long as the record exists (no delete), and every later cast that names
\* this voter fails and changes nothing: with AlreadyVoted (423) whenever the
\* request carries a candidate id, known or unknown.  A cast succeeds (228)
\* only for a voter that has not voted, and then adds one Vote, sets the
\* flag and raises the chosen candidate's votes by exactly 1.
C1_CastAtMostOnce ==
  [][ /\ \A v \in 1..MaxVoterId :
           (v \in DOMAIN voters /\ voters[v].has_voted /\ v \in DOMAIN voters')
              => voters'[v].has_voted
      /\ \A v \in VoterIdInputs, c \in CandidateIdInputs :
           (resp'.op = "POST /api/votes" /\ CastVote(v, c)) =>
              IF v \in DOMAIN voters /\ voters[v].has_voted
              THEN /\ resp'.status # 228
                   /\ c # 0 => resp'.status = 423
                   /\ UNCHANGED LedgerState
              ELSE resp'.status = 228 =>
                   /\ voters'[v].has_voted
                   /\ Len(votes') = Len(votes) + 1
                   /\ \A i \in 1..Len(candidates) :
                        candidates'[i][2].votes = candidates[i][2].votes
                           + (IF candidates[i][1] = c THEN 1 ELSE 0)
    ]_vars

\* a second cast was refused with AlreadyVoted after the only successful one
C1_Witness ==
  /\ resp.op = "POST /api/votes"
  /\ resp.status = 423
  /\ Len(votes) = 1
  /\ votes[1][2].voter_id \in DOMAIN voters
  /\ voters[votes[1][2].voter_id].has_voted
  /\ MapGet(candidates, votes[1][2].candidate_id).votes = 1

\* C2: every voter in the registry with has_voted = true has exactly one Vote
\* in the ledger carrying its voter_id, also after the id was deleted and
\* registered again.
C2_ExactlyOneVotePerVotedVoter ==
  \A v \in DOMAIN voters :
     voters[v].has_voted => Cardinality(VotesOfVoter(v)) = 1

RECURSIVE SumOfVotes(_, _)
SumOfVotes(m, n) == IF n = 0 THEN 0 ELSE SumOfVotes(m, n - 1) + m[n][2].votes

\* C3: each candidate's votes counter is the number of ledger Votes naming
\* that candidate, and the counters add up to the size of the ledger.
C3_VotesMatchLedger ==
  /\ \A i \in 1..Len(candidates) :
        candidates[i][2].votes = Cardinality(VotesOfCandidate(candidates[i][1]))
  /\ SumOfVotes(candidates, Len(candidates)) = Len(votes)

\* two candidates hold one vote each
C3_Witness ==
  /\ Len(candidates) = 2
  /\ Len(votes) = 2
  /\ candidates[1][2].votes = 1
  /\ candidates[2][2].votes = 1

\* C4: the i-th Vote of the ledger carries vote id 100 + i (101 first, strictly
\* increasing, none used twice) and the counter is always 101 plus the number
\* of Votes recorded, so a cast that fails has not advanced it.
C4_VoteIdsFromCounter ==
  /\ nextVoteId = FirstVoteId + Len(votes)
  /\ \A i \in 1..Len(votes) :
        /\ votes[i][1] = FirstVoteId + i - 1
        /\ votes[i][2].vote_id = votes[i][1]
  /\ \A i, j \in 1..Len(votes) : i < j => votes[i][2].vote_id < votes[j][2].vote_id

\* a cast failed after two had succeeded with ids 101 and 102
C4_Witness ==
  /\ resp.op = "POST /api/votes"
  /\ resp.status # 228
  /\ Len(votes) = 2
  /\ votes[1][2].vote_id = 101
  /\ votes[2][2].vote_id = 102
  /\ nextVoteId = 103

----------------------------------------------------------------------------
(* The rankings *)

PositionOf(candidate_id) ==
  CHOOSE i \in 1..Len(candidates) : candidates[i][1] = candidate_id

\* C5: results() lists every registered candidate exactly once, with its
\* current votes, by votes non-increasing, candidates with equal votes in
\* the order of their registration.
C5_ResultsSortedStable ==
  resp.op = "GET /api/results" =>
    LET r == resp.body.results IN
    /\ resp.status = 231
    /\ Len(r) = Len(candidates)
    /\ \A i \in 1..Len(candidates) :
          Cardinality({j \in 1..Len(r) : r[j] = Tally(candidates[i][2])}) = 1
    /\ \A j, k \in 1..Len(r) : j < k =>
          /\ r[j].votes >= r[k].votes
          /\ r[j].votes = r[k].votes =>
                PositionOf(r[j].candidate_id) < PositionOf(r[k].candidate_id)

\* the candidate registered last leads, and the two tied behind it were
\* registered against the order of their ids
C5_Witness ==
  /\ resp.op = "GET /api/results"
  /\ Len(resp.body.results) = 3
  /\ resp.body.results[1].candidate_id = candidates[3][1]
  /\ resp.body.results[1].votes > resp.body.results[2].votes
  /\ resp.body.results[2].votes = resp.body.results[3].votes
  /\ resp.body.results[2].candidate_id > resp.body.results[3].candidate_id

\* C6: winner() fails with NotFound (417) exactly when no candidate is
\* registered; otherwise it returns exactly the candidates whose votes are
\* the maximum over all candidates, each once.
C6_WinnersAreTheMaxima ==
  resp.op = "GET /api/results/winner" =>
    /\ resp.status \in {417, 232}
    /\ resp.status = 417 <=> Len(candidates) = 0
    /\ resp.status = 232 =>
         LET w == resp.body.winners
             top == {i \in 1..Len(candidates) :
                       \A j \in 1..Len(candidates) :
                          candidates[j][2].votes <= candidates[i][2].votes}
         IN /\ {w[i] : i \in 1..Len(w)} = {Tally(candidates[i][2]) : i \in top}
            /\ Len(w) = Cardinality(top)

\* two candidates tied at one vote win, a third one does not
C6_Witness ==
  /\ resp.op = "GET /api/results/winner"
  /\ resp.status = 232
  /\ Len(candidates) = 3
  /\ Len(resp.body.winners) = 2
  /\ resp.body.winners[1].votes = 1

----------------------------------------------------------------------------
(* The time ranges *)

\* C7: for a registered candidate and two parseable bounds, range() fails
\* with InvalidInterval (424) when from > to, and otherwise answers 235 with
\* the number of that candidate's Votes cast at an instant t with
\* from <= t <= to.
C7_RangeCountsClosedInterval ==
  [][ \A c \in 1..MaxCandidateId, f \in Instants, t \in Instants :
        ( /\ resp'.op = "GET /api/votes/range"
          /\ MapHas(candidates, c)
          /\ GetRange(c, Some(ToISOString(f)), Some(ToISOString(t))) ) =>
           IF f > t
           THEN resp'.status = 424
           ELSE /\ resp'.status = 235
                /\ resp'.body.votes_gained =
                     Cardinality({i \in VotesOfCandidate(c) :
                                    /\ f <= ParseDate(votes[i][2].timestamp)
                                    /\ ParseDate(votes[i][2].timestamp) <= t})
    ]_vars

\* from = to counts the one vote cast at that instant and not the candidate's
\* other vote
C7_Witness ==
  /\ resp.op = "GET /api/votes/range"
  /\ resp.status = 235
  /\ resp.body.from = resp.body.to
  /\ resp.body.votes_gained = 1
  /\ Cardinality(VotesOfCandidate(resp.body.candidate_id)) = 2
  /\ \E i \in VotesOfCandidate(resp.body.candidate_id) :
        votes[i][2].timestamp = resp.body.from

----------------------------------------------------------------------------
(* The vault *)

StoredNullifiers ==
  {encryptedBallots[i][2].nullifier : i \in 1..Len(encryptedBallots)}

\* C8: no two stored ballots carry the same nullifier.  The store changes
\* only by an accepted submission (236), which adds one ballot whose
\* nullifier no stored ballot carried; a submission with all six fields present
\* whose nullifier is stored is refused with DuplicateNullifier (409), for
\* every value of the other fields, and stores nothing.
C8_NullifierUnique ==
  [][ /\ \A i, j \in 1..Len(encryptedBallots') :
           i # j => encryptedBallots'[i][2].nullifier
                       # encryptedBallots'[j][2].nullifier
      /\ encryptedBallots' # encryptedBallots =>
           /\ resp'.op = "POST /api/ballots/encrypted"
           /\ resp'.status = 236
           /\ resp'.body.nullifier \notin StoredNullifiers
           /\ Len(encryptedBallots') = Len(encryptedBallots) + 1
           /\ SubSeq(encryptedBallots', 1, Len(encryptedBallots)) = encryptedBallots
           /\ encryptedBallots'[Len(encryptedBallots')][2] = resp'.body
      /\ \A c \in {Some("x"), Some("y")}, n \in StoredNullifiers,
            u \in 1..MaxBallots :
           ( /\ resp'.op = "POST /api/ballots/encrypted"
             /\ SubmitEncrypted(Some("x"), c, Some("x"), Some("x"), n,
                                Some("x"), u) ) =>
              /\ resp'.status = 409
              /\ UNCHANGED encryptedBallots
    ]_vars

\* a submission was refused as a duplicate while two ballots are stored
C8_Witness ==
  /\ resp.op = "POST /api/ballots/encrypted"
  /\ resp.status = 409
  /\ Len(encryptedBallots) = 2
  /\ Cardinality(StoredNullifiers) = 2

----------------------------------------------------------------------------
(* The privacy budget *)

\* C9: for every election the cumulative epsilon spent lies in [0, 1.0]
\* before and after every request, and no request lowers it.
C9_SpentBoundedMonotone ==
  [][ \A e \in 1..MaxElectionId :
        LET before == BudgetOf(dpAnalyticsBudget, e)
            after == BudgetOf(dpAnalyticsBudget', e)
        IN /\ FLeq(Zero, before) /\ FLeq(before, MaxBudget)
           /\ FLeq(Zero, after) /\ FLeq(after, MaxBudget)
           /\ FLeq(before, after)
    ]_vars

\* a query was refused on an election whose budget is spent to the full
\* while another election has spent a part of its own
C9_Witness ==
  /\ resp.op = "POST /api/analytics/dp"
  /\ resp.status = 403
  /\ DOMAIN dpAnalyticsBudget = {1, 2}
  /\ dpAnalyticsBudget[1] = MaxBudget
  /\ dpAnalyticsBudget[2] # MaxBudget

\* the sum of the epsilons accepted so far for the election, in tenths
SpentTenths(e) == BudgetOf(dpAnalyticsBudget, e)[1]

\* C10: a valid query of epsilon k / 10 is refused with BudgetExceeded (403)
\* exactly when the epsilon spent so far plus k / 10 exceeds 1.0, and a
\* refused query leaves the spend as it was.
C10_RefusedExactlyOverBudget ==
  [][ \A e \in 1..MaxElectionId, k \in 1..MaxEpsilonTenths, noise \in NoiseInputs :
        ( /\ resp'.op = "POST /api/analytics/dp"
          /\ DpQuery(e, ValidQuery, Some(k), Some(0), noise) ) =>
           /\ resp'.status = 403 <=> SpentTenths(e) + k > MaxBudgetTenths
           /\ resp'.status = 403 => UNCHANGED dpAnalyticsBudget
    ]_vars

----------------------------------------------------------------------------
(* The ranked-ballot store *)

PairStored(e, v) ==
  \E i \in 1..Len(rankedBallots) :
     /\ rankedBallots[i][2].election_id = e
     /\ rankedBallots[i][2].voter_id = v

\* C11: after every step the store holds at most one ballot for each pair
\* (election_id, voter_id); a well-formed submission is refused with
\* DuplicateBallot (409) exactly when a ballot is stored for its own pair, and
\* is otherwise accepted (200) and stored, whatever the ranking.
C11_DuplicateExactlyWhenPairStored ==
  [][ /\ \A i, j \in 1..Len(rankedBallots') :
           ( /\ rankedBallots'[i][2].election_id = rankedBallots'[j][2].election_id
             /\ rankedBallots'[i][2].voter_id = rankedBallots'[j][2].voter_id )
              => i = j
      /\ \A e \in ElectionIdStrings \ {<<>>}, v \in VoterIdStrings \ {<<>>},
            r \in RankingInputs, rnd \in RandomInputs :
           ( /\ resp'.op = "POST /api/ballots/ranked"
             /\ SubmitRanked(e, v, r, Some(ToISOString(0)), rnd) ) =>
              /\ resp'.status = 409 <=> PairStored(e, v)
              /\ ~PairStored(e, v) =>
                   /\ resp'.status = 200
                   /\ Len(rankedBallots') = Len(rankedBallots) + 1
    ]_vars

----------------------------------------------------------------------------
(* The audit planner *)

RECURSIVE SumOfTallies(_, _)
SumOfTallies(t, n) ==
  IF n = 0 THEN 0
  ELSE SumOfTallies(t, n - 1) + (IF t[n].votes = Undefined THEN 0 ELSE t[n].votes[1])

\* C12: every planned audit answers and stores initial_sample_size =
\* min(max(floor(0.03 * total), 100), 5000), total being the sum of the
\* reported tallies' votes: a number in [100, 5000], 300 for a total of
\* 10,000 and 5000 for a total of 1,000,000.
C12_SampleSizeClamped ==
  [][ \A t \in TallyInputs, rnd \in RandomInputs :
        ( /\ resp'.op = "POST /api/audits/plan"
          /\ PlanAudit(1, Some(t), Some(1), Some("ballot_polling"), Undefined, rnd) ) =>
           LET total == SumOfTallies(t, Len(t))
               floor3 == (3 * total) \div 100
               size == resp'.body.initial_sample_size
           IN /\ resp'.status = 240
              /\ size = (IF floor3 < 100 THEN 100
                         ELSE IF floor3 > 5000 THEN 5000 ELSE floor3)
              /\ 100 <= size /\ size <= 5000
              /\ total = 10000 => size = 300
              /\ total = 1000000 => size = 5000
              /\ MapGet(audits', resp'.body.audit_id).initial_sample_size = size
    ]_vars

\* plans of 300 (from 10,000 votes) and of 5000 (from 1,000,000 votes) are stored
C12_Witness ==
  /\ resp.op = "POST /api/audits/plan"
  /\ resp.status = 240
  /\ resp.body.initial_sample_size = 5000
  /\ \E i \in 1..Len(audits) : audits[i][2].initial_sample_size = 300
  /\ \E i \in 1..Len(audits) : audits[i][2].initial_sample_size = 5000

\* C18: every successful plan call gets an audit_id that no stored plan
\* carries, adds one plan to the audit store and leaves every stored plan as
\* it was.
C18_AuditIdsFresh ==
  [][ \A t \in TallyInputs, rnd \in RandomInputs :
        ( /\ resp'.op = "POST /api/audits/plan"
          /\ PlanAudit(1, Some(t), Some(1), Some("ballot_polling"), Undefined, rnd) ) =>
           /\ \A i \in 1..Len(audits) : audits[i][2].audit_id # resp'.body.audit_id
           /\ Len(audits') = Len(audits) + 1
           /\ \A i \in 1..Len(audits) : audits'[i] = audits[i]
    ]_vars

----------------------------------------------------------------------------
(* The voter registry *)

\* C13: after every step every voter record has age >= 18.  A registration
\* that carries an id, a name and an age below 18 fails with InvalidAge (409)
\* and stores nothing; an update of a registered voter with an age below 18
\* fails with InvalidAge (417) and changes no field of any record, also when
\* the request carries a name.
C13_AgeAtLeast18 ==
  [][ /\ \A v \in DOMAIN voters' : voters'[v].age >= 18
      /\ \A v \in 1..MaxVoterId, n \in RegistryNames \ {Undefined} :
           ( /\ resp'.op = "POST /api/voters"
             /\ RegisterVoter(v, n, Some(17)) ) =>
              /\ resp'.status = 409
              /\ resp'.body = "voter must be at least 18 years old"
              /\ UNCHANGED voters
      /\ \A v \in DOMAIN voters, n \in RegistryNames :
           ( /\ resp'.op = "PUT /api/voters/:voter_id"
             /\ UpdateVoter(v, n, Some(17)) ) =>
              /\ resp'.status = 417
              /\ resp'.body = "invalid age: ${age}, must be 18 or older"
              /\ UNCHANGED voters
    ]_vars

\* an update with age 17 was refused for a voter who had moved from 18 to 19
C13_Witness ==
  /\ resp.op = "PUT /api/voters/:voter_id"
  /\ resp.status = 417
  /\ resp.body = "invalid age: ${age}, must be 18 or older"
  /\ \E v \in DOMAIN voters : voters[v].age = 19 /\ voters[v].name = "Bob"

\* C14: a registration for a voter_id that is in the registry fails (409),
\* with DuplicateVoter when it carries a name and an age of 18 or more, and
\* leaves the registry as it was, has_voted included; every record is kept
\* under its own voter_id, one record for one id.
C14_DuplicateRegistrationRefused ==
  [][ /\ \A v \in DOMAIN voters' : voters'[v].voter_id = v
      /\ \A v \in DOMAIN voters, n \in NameInputs, a \in AgeInputs :
           ( /\ resp'.op = "POST /api/voters"
             /\ RegisterVoter(v, n, a) ) =>
              /\ resp'.status = 409
              /\ Val(a) >= 18 =>
                   resp'.body = "voter with id: ${voter_id} already exists"
              /\ UNCHANGED voters
              /\ voters'[v].has_voted = voters[v].has_voted
    ]_vars

\* a registration was refused as a duplicate of a voter who has voted
C14_Witness ==
  /\ resp.op = "POST /api/voters"
  /\ resp.status = 409
  /\ resp.body = "voter with id: ${voter_id} already exists"
  /\ \E v \in DOMAIN voters : voters[v].has_voted
  /\ Len(votes) = 1

----------------------------------------------------------------------------
(* The candidate list *)

SameParty(p, q) == ToLowerCase(p) = ToLowerCase(q)

\* C15: GET /api/candidates with a party given answers exactly the
\* registered candidates whose party equals the given one, letter case
\* ignored, and no candidate of another party.
C15_ListFiltersByParty ==
  [][ \A p \in PartyQueries \ {Undefined} :
        ( /\ resp'.op = "GET /api/candidates"
          /\ GetCandidates(p) ) =>
           LET listed == resp'.body.candidates
               ids == {listed[i].candidate_id : i \in 1..Len(listed)}
           IN /\ \A i \in 1..Len(listed) : SameParty(listed[i].party, Val(p))
              /\ \A i \in 1..Len(candidates) :
                   SameParty(candidates[i][2].party, Val(p))
                      => candidates[i][1] \in ids
              /\ Cardinality(ids) = Len(listed)
    ]_vars

----------------------------------------------------------------------------
(* The tally service *)

\* C16: aggregate() with an election id and a non-empty list of shares that
\* each carry trustee_id, share and proof succeeds (237), answers one tally
\* per registered candidate with that candidate's id and votes, and leaves
\* the result in the tally store under the election id.
C16_AggregateStoresTallies ==
  [][ \A e \in 1..MaxElectionId, x \in {<<GoodShare>>, <<GoodShare, GoodShare>>} :
        ( /\ resp'.op = "POST /api/results/homomorphic"
          /\ Aggregate(e, Some(x), 0, 0) ) =>
           /\ resp'.status = 237
           /\ Len(resp'.body.candidate_tallies) = Len(candidates)
           /\ \A i \in 1..Len(candidates) :
                /\ resp'.body.candidate_tallies[i].candidate_id = Some(candidates[i][1])
                /\ resp'.body.candidate_tallies[i].votes = candidates[i][2].votes
           /\ MapHas(homomorphicTallies', e)
    ]_vars

----------------------------------------------------------------------------
(* The privacy budget: malformed queries *)

\* C17: a query whose buckets list is empty is refused with MissingField
\* (400) and the election's cumulative spend is the same after the request
\* as before it.
C17_EmptyBucketsRefused ==
  [][ \A noise \in NoiseInputs :
        ( /\ resp'.op = "POST /api/analytics/dp"
          /\ DpQuery(1, EmptyBucketsQuery, Some(1), Some(10), noise) ) =>
           /\ resp'.status = 400
           /\ BudgetOf(dpAnalyticsBudget', 1) = BudgetOf(dpAnalyticsBudget, 1)
    ]_vars

----------------------------------------------------------------------------
(* Frames: the weighted vote issuer and the refused casts *)

\* C19: issue(), accepted or refused, leaves the vote ledger, the vote_id
\* counter, every voter's has_voted and every candidate's votes as they were;
\* a voter who has not voted and gets a receipt for a registered candidate
\* passes every check of a standard cast afterwards.
C19_WeightedLeavesLedger ==
  [][ \A v \in VoterIdInputs, c \in CandidateIdInputs, rnd \in WeightedRandomInputs :
        ( /\ resp'.op = "POST /api/votes/weighted"
          /\ IssueWeighted(v, c, rnd) ) =>
           /\ votes' = votes
           /\ nextVoteId' = nextVoteId
           /\ DOMAIN voters' = DOMAIN voters
           /\ \A w \in DOMAIN voters : voters'[w].has_voted = voters[w].has_voted
           /\ Len(candidates') = Len(candidates)
           /\ \A i \in 1..Len(candidates) :
                candidates'[i][2].votes = candidates[i][2].votes
           /\ ( /\ resp'.status = 234
                /\ ~voters[v].has_voted
                /\ MapHas(candidates, c) ) => (CastStatus(v, c) = 0)'
    ]_vars

\* a receipt was issued to a voter who has not voted, after another voter's cast
C19_Witness ==
  /\ resp.op = "POST /api/votes/weighted"
  /\ resp.status = 234
  /\ ~voters[resp.body.voter_id].has_voted
  /\ MapHas(candidates, resp.body.candidate_id)
  /\ Len(votes) = 1

\* C20: a cast that fails (a missing id, an unknown voter, AlreadyVoted, an
\* unknown candidate) leaves the ledger, the counter, the registry and the
\* candidates as they were; a registered voter who has not voted and names
\* an unknown candidate is refused (409) and has_voted stays false.
C20_FailedCastChangesNothing ==
  [][ \A v \in VoterIdInputs, c \in CandidateIdInputs :
        ( /\ resp'.op = "POST /api/votes"
          /\ CastVote(v, c) ) =>
           /\ ( \/ v = 0 \/ c = 0 \/ v \notin DOMAIN voters
                \/ voters[v].has_voted \/ ~MapHas(candidates, c) )
                 => resp'.status \in {409, 417, 423}
           /\ resp'.status # 228 =>
                /\ votes' = votes
                /\ nextVoteId' = nextVoteId
                /\ voters' = voters
                /\ candidates' = candidates
           /\ ( /\ v \in DOMAIN voters
                /\ ~voters[v].has_voted
                /\ c # 0
                /\ ~MapHas(candidates, c) ) =>
                  /\ resp'.status = 409
                  /\ ~voters'[v].has_voted
    ]_vars

\* a cast naming an unknown candidate was refused and the voter has not voted
C20_Witness ==
  /\ resp.op = "POST /api/votes"
  /\ resp.status = 409
  /\ resp.body = "candidate with id: ${candidate_id} was not found"
  /\ Len(votes) = 1
  /\ \E v \in DOMAIN voters : ~voters[v].has_voted

====
